---- MODULE Spec2Model ----
(***************************************************************************)
(* A model of the aleister_crawley site tracer: the worker's link          *)
(* pipeline (sort, dedup, resolve, scope filter), the trace state (seen    *)
(* set, process heap, in-flight deque, link map) and the engine loop with  *)
(* its retry policy; and of the tree renderer that turns a link map into   *)
(* lines.  Strings are sequences of byte values, so prefix tests,          *)
(* concatenation and lexicographic order are computed as the code computes *)
(* them.  format_link_as_url, Process::new, the comparisons of Process,    *)
(* Page::get_links and to_tree are also run on their own, each in a        *)
(* specification that draws its inputs; the engine is also run against a   *)
(* link gatherer that follows a script; main is run from the command line  *)
(* to its return.                                                          *)
(***************************************************************************)
EXTENDS Integers, Sequences, FiniteSets, TLC

(***************************************************************************)
(* Bounds of the model.                                                    *)
(***************************************************************************)
MaxPool == 2
MaxRetries == 1
MaxTime == 1
MaxHrefLen == 5

(***************************************************************************)
(* Strings as byte sequences.                                              *)
(***************************************************************************)
Http == <<104, 116, 116, 112>>
Slash == <<47>>
Root == Http \o <<58, 47, 47, 114>>
Foreign == Http \o <<58, 47, 47, 120>>
HrefSlashA == <<47, 97>>
HrefBareA == <<97>>
HrefSlashB == <<47, 98>>
HrefAbsA == Root \o HrefSlashA

RawHrefs == {HrefSlashA, HrefBareA, HrefSlashB, HrefAbsA, Foreign, Root}

StartsWith(s, p) ==
    /\ Len(p) <= Len(s)
    /\ SubSeq(s, 1, Len(p)) = p

RECURSIVE StrLess(_, _)
StrLess(s, t) ==
    IF t = <<>> THEN FALSE
    ELSE IF s = <<>> THEN TRUE
    ELSE IF Head(s) < Head(t) THEN TRUE
    ELSE IF Head(s) > Head(t) THEN FALSE
    ELSE StrLess(Tail(s), Tail(t))

(***************************************************************************)
(* format_link_as_url                                                      *)
(***************************************************************************)
\* The "/" is inserted whether or not the href already starts with one.
format_link_as_url_AlwaysSlash(link, root) ==
    IF StartsWith(link, Http) THEN link ELSE root \o Slash \o link

format_link_as_url(link, root) ==
    IF StartsWith(link, Http)
    THEN link
    ELSE LET processed_url == IF StartsWith(link, Slash)
                              THEN link
                              ELSE Slash \o link
         IN root \o processed_url

(***************************************************************************)
(* Vec::sort, Vec::dedup, and the map/filter chain of the worker.          *)
(***************************************************************************)
RECURSIVE InsertSorted(_, _)
InsertSorted(x, s) ==
    IF s = <<>> THEN <<x>>
    ELSE IF StrLess(x, Head(s)) THEN <<x>> \o s
    ELSE <<Head(s)>> \o InsertSorted(x, Tail(s))

RECURSIVE SortLinks(_)
SortLinks(s) ==
    IF s = <<>> THEN <<>>
    ELSE InsertSorted(s[Len(s)], SortLinks(SubSeq(s, 1, Len(s) - 1)))

RECURSIVE DedupLinks(_)
DedupLinks(s) ==
    IF Len(s) <= 1 THEN s
    ELSE IF s[1] = s[2] THEN DedupLinks(Tail(s))
    ELSE <<s[1]>> \o DedupLinks(Tail(s))

RECURSIVE MapFormat(_, _)
MapFormat(s, root) ==
    IF s = <<>> THEN <<>>
    ELSE <<format_link_as_url(Head(s), root)>> \o MapFormat(Tail(s), root)

\* The chain without its scope filter.
FilterScope_KeepAll(s, root) == s

\* The filter keeps every absolute URL, whatever its origin.
RECURSIVE FilterScope_AnyHttp(_, _)
FilterScope_AnyHttp(s, root) ==
    IF s = <<>> THEN <<>>
    ELSE IF StartsWith(Head(s), Http)
         THEN <<Head(s)>> \o FilterScope_AnyHttp(Tail(s), root)
         ELSE FilterScope_AnyHttp(Tail(s), root)

RECURSIVE FilterScope(_, _)
FilterScope(s, root) ==
    IF s = <<>> THEN <<>>
    ELSE IF StartsWith(Head(s), root)
         THEN <<Head(s)>> \o FilterScope(Tail(s), root)
         ELSE FilterScope(Tail(s), root)

FilteredLinks(links, root) ==
    FilterScope(MapFormat(DedupLinks(SortLinks(links)), root), root)

(***************************************************************************)
(* Values carried by the trace: URLContentGetterError, LinkMapValue, the   *)
(* responses of the link gatherer.                                         *)
(***************************************************************************)
ErrRequest == [kind |-> "Request", code |-> 401]
ErrContent == [kind |-> "Content", message |-> "Oh No"]
ErrorKinds == {ErrRequest, ErrContent}

Links(l) == [links |-> l, tag |-> "Links"]
Error(e) == [tag |-> "Error", err |-> e]

\* The documents of the site: the root page mixes the href forms, the other
\* pages are empty or link back to the root and to /a.
RootPage == <<HrefSlashB, HrefBareA, HrefSlashA, Foreign>>
BackPage == <<Root, HrefAbsA>>
Pages(u) == IF u = Root THEN {RootPage} ELSE {<<>>, BackPage}

RespOk(body) == [links |-> body, ok |-> TRUE]
RespErr(e) == [err |-> e, ok |-> FALSE]
NoResp == [err |-> [kind |-> "none"], ok |-> FALSE]

Urls == {Root} \cup {u \in {format_link_as_url(h, Root) : h \in RawHrefs} : StartsWith(u, Root)}

RetryDelays == {0, 1}

U8Max == 255
U64Bits == 64

VARIABLES
    worker_pool_size,        \* SiteTracer.worker_pool_size
    max_retries,             \* SiteTracer.max_retries
    initial_retry_delay_ms,  \* SiteTracer.initial_retry_delay_ms
    overflow_checks,         \* build profile: TRUE panics on integer overflow, FALSE wraps
    link_map,                \* Trace.link_map.map
    seen,                    \* Trace.seen
    heap,                    \* Trace.heap, in push order
    processors,              \* Trace.processors, front first
    capacity,                \* capacity of the processors deque
    current,                 \* the handle the engine is awaiting
    pc,                      \* position of the engine in SiteTracer::trace
    spawned,                 \* number of worker tasks spawned so far
    now,                     \* wall clock, in milliseconds
    attempts,                \* per URL: number of get_links calls made
    failures,                \* per URL: number of get_links calls that returned Err
    lastResp,                \* per URL: the response of the latest get_links call
    prevResp,                \* per URL: the response of the call before the latest
    crashed,                 \* the URLs whose worker ended by panic or cancellation
    link,                    \* format_link_as_url: the raw href it is called with
    formatted,               \* format_link_as_url: the value it returned
    process_retry,           \* Process::new: the retry it is called with
    process_new,             \* Process::new: the item it returned, or its panic
    tree_map,                \* to_tree: link_map.map, the map being rendered
    dfs,                     \* to_tree: the deque of items, front first
    visited,                 \* to_tree: the CountMap
    output,                  \* to_tree: the lines written so far
    tree,                    \* to_tree: the value it returned
    first,                   \* to_tree: the map and the value of an earlier call
    body,                    \* Page::get_links: what the content getter returned
    gathered,                \* Page::get_links: the value it returned
    main_pc,                 \* main: its position
    args,                    \* main: the value of Cli::try_parse
    stdout,                  \* main: what it printed, in order
    exit_code,               \* main: the exit status of the process
    lhs,                     \* comparisons of Process: the left operand
    rhs,                     \* comparisons of Process: the right operand
    compared,                \* comparisons of Process: the results
    script                   \* a scripted link gatherer: per URL, its responses in order

vars == <<worker_pool_size, max_retries, initial_retry_delay_ms, overflow_checks,
          link_map, seen, heap, processors, capacity, current, pc, spawned, now,
          attempts, failures, lastResp, prevResp, crashed, link, formatted,
          process_retry, process_new, tree_map, dfs, visited, output, tree, first,
          body, gathered, main_pc, args, stdout, exit_code, lhs, rhs, compared, script>>

history == <<attempts, failures, lastResp, prevResp, crashed>>

config == <<worker_pool_size, max_retries, initial_retry_delay_ms, overflow_checks>>

\* The state of the units that are exercised on their own, outside a trace.
scoper_state == <<link, formatted>>

process_state == <<process_retry, process_new>>

tree_state == <<tree_map, dfs, visited, output, tree>>

rerun_state == <<first>>

gather_state == <<body, gathered>>

main_state == <<main_pc, args, stdout, exit_code>>

compare_state == <<lhs, rhs, compared>>

apart ==
    <<scoper_state, process_state, tree_state, rerun_state, gather_state, main_state,
      compare_state, script>>

NotCalled == [st |-> "none"]

ScoperIdle == link = <<>> /\ formatted = NotCalled

ProcessIdle == process_retry = 0 /\ process_new = NotCalled

TreeIdle ==
    /\ tree_map = <<>>
    /\ dfs = <<>>
    /\ visited = <<>>
    /\ output = <<>>
    /\ tree = NotCalled

RerunIdle == first = NotCalled

GatherIdle == body = NotCalled /\ gathered = NotCalled

MainIdle ==
    main_pc = "idle" /\ args = NotCalled /\ stdout = <<>> /\ exit_code = NotCalled

CompareIdle == lhs = NotCalled /\ rhs = NotCalled /\ compared = NotCalled

\* The link gatherer follows no script.
Unscripted == script = NotCalled

ApartIdle ==
    /\ ScoperIdle /\ ProcessIdle /\ TreeIdle /\ RerunIdle /\ GatherIdle /\ MainIdle
    /\ CompareIdle /\ Unscripted

NoHandle == [url |-> <<>>, retry |-> 0, wake |-> 0, nth |-> 0, out |-> [st |-> "none"]]
Running == [st |-> "running"]
JoinErr == [st |-> "joinerr"]
Finished(url, value, retry) == [st |-> "ok", url |-> url, retry |-> retry, value |-> value]

(***************************************************************************)
(* Process::new and Process::get_delay.                                    *)
(***************************************************************************)
Pow2(n) == 2 ^ n

ProcessPanics(retry, checks) == retry # 0 /\ retry >= U64Bits /\ checks

ProcessTimestamp(retry, base_delay_ms, t) ==
    IF retry = 0 THEN t
    ELSE IF retry >= U64Bits \/ base_delay_ms = 0 THEN t
    ELSE t + base_delay_ms * Pow2(retry)

Process(url, retry, base_delay_ms, t) ==
    [url |-> url, retry |-> retry, timestamp |-> ProcessTimestamp(retry, base_delay_ms, t)]

\* No delay is ever handed to the worker.
get_delay_None(process, t) == 0

get_delay(process, t) ==
    IF process.timestamp > t THEN process.timestamp - t ELSE 0

(***************************************************************************)
(* SiteTracer::worker: the handle of a spawned task.                       *)
(***************************************************************************)
worker(url, retry, delay, t, nth) ==
    [url |-> url, retry |-> retry, wake |-> t + delay, nth |-> nth, out |-> Running]

\* Every failure is reported as a Request error.
WorkerValue_RequestOnly(resp, root) ==
    IF resp.ok THEN Links(FilteredLinks(resp.links, root)) ELSE Error(ErrRequest)

WorkerValue(resp, root) ==
    IF resp.ok THEN Links(FilteredLinks(resp.links, root)) ELSE Error(resp.err)

WorkerOutput(url, retry, resp, checks) ==
    IF retry + 1 > U8Max
    THEN IF checks THEN JoinErr ELSE Finished(url, WorkerValue(resp, Root), (retry + 1) % (U8Max + 1))
    ELSE Finished(url, WorkerValue(resp, Root), retry + 1)

(***************************************************************************)
(* Trace: the operations on the trace state.                               *)
(***************************************************************************)
push_processor(procs, h) == <<h>> \o procs

GrowCapacity(cap, len) ==
    IF len < cap THEN cap
    ELSE IF 2 * cap > 4 THEN 2 * cap ELSE 4

\* The length compared with the configured pool size instead of the capacity.
has_process_capacity_PoolSize(procs, cap) == Len(procs) < worker_pool_size

has_process_capacity(procs, cap) == Len(procs) < cap

\* The seen test is skipped: every offered URL is pushed.
queue_to_process_NoSeenCheck(st, url, retry, base_delay_ms, t) ==
    [seen |-> IF retry = 0 THEN st.seen \cup {url} ELSE st.seen,
     heap |-> Append(st.heap, Process(url, retry, base_delay_ms, t))]

queue_to_process(st, url, retry, base_delay_ms, t) ==
    IF retry = 0 /\ url \in st.seen
    THEN st
    ELSE [seen |-> IF retry = 0 THEN st.seen \cup {url} ELSE st.seen,
          heap |-> Append(st.heap, Process(url, retry, base_delay_ms, t))]

RECURSIVE QueueLinks(_, _, _, _)
QueueLinks(st, links, base_delay_ms, t) ==
    IF links = <<>> THEN st
    ELSE QueueLinks(queue_to_process(st, Head(links), 0, base_delay_ms, t),
                    Tail(links), base_delay_ms, t)

\* The map is replaced by one that holds the new entry alone.
add_result_Replaces(map, url, value) == [u \in {url} |-> value]

add_result(map, url, value) ==
    [u \in DOMAIN map \cup {url} |-> IF u = url THEN value ELSE map[u]]

(***************************************************************************)
(* The comparisons of Process.  PartialEq and Ord are written by hand and  *)
(* look at the timestamp only; PartialOrd is derived, so <, <=, > and >=   *)
(* compare the fields in the order of their declaration: url, timestamp,   *)
(* retry.                                                                  *)
(***************************************************************************)
Less == "Less"
Equal == "Equal"
Greater == "Greater"

CmpInt(a, b) == IF a < b THEN Less ELSE IF a = b THEN Equal ELSE Greater

CmpStr(s, t) == IF StrLess(s, t) THEN Less ELSE IF s = t THEN Equal ELSE Greater

eq(a, b) == a.timestamp = b.timestamp

cmp(a, b) == CmpInt(a.timestamp, b.timestamp)

partial_cmp(a, b) ==
    IF CmpStr(a.url, b.url) # Equal THEN CmpStr(a.url, b.url)
    ELSE IF CmpInt(a.timestamp, b.timestamp) # Equal THEN CmpInt(a.timestamp, b.timestamp)
    ELSE CmpInt(a.retry, b.retry)

lt(a, b) == partial_cmp(a, b) = Less

le(a, b) == partial_cmp(a, b) \in {Less, Equal}

\* BinaryHeap::pop returns a greatest item.  The heap's sift loops compare
\* items with <= and >=, the operators of PartialOrd, while its contract is
\* stated for Ord; the two orders disagree here, which leaves the item popped
\* unspecified, so a greatest item of either order may be the one popped.
HeapMaxByOperators(h) == {i \in DOMAIN h : \A j \in DOMAIN h : le(h[j], h[i])}

HeapMaxByCmp(h) == {i \in DOMAIN h : \A j \in DOMAIN h : cmp(h[j], h[i]) # Greater}

HeapMax(h) == HeapMaxByOperators(h) \cup HeapMaxByCmp(h)

\* The popped item stays on the heap.
RemoveAt_KeepsItem(s, i) == s

RemoveAt(s, i) == SubSeq(s, 1, i - 1) \o SubSeq(s, i + 1, Len(s))

(***************************************************************************)
(* Initial state: the tracer is configured and Trace::new has run.         *)
(***************************************************************************)
InitTrace ==
    /\ link_map = <<>>
    /\ seen = {Root}
    /\ heap = <<>>
    /\ processors = <<>>
    /\ capacity = worker_pool_size
    /\ current = NoHandle
    /\ pc = "start"
    /\ spawned = 0
    /\ now = 0
    /\ attempts = [u \in Urls |-> 0]
    /\ failures = [u \in Urls |-> 0]
    /\ lastResp = [u \in Urls |-> NoResp]
    /\ prevResp = [u \in Urls |-> NoResp]
    /\ crashed = {}

\* The two build profiles behave alike unless a retry count can reach an
\* overflowing operation, the first of which is 2^retry at retry = 64.
BuildProfiles(max) == IF max >= U64Bits THEN BOOLEAN ELSE {FALSE}

Init ==
    /\ worker_pool_size \in 0..MaxPool
    /\ max_retries \in 0..MaxRetries
    /\ initial_retry_delay_ms \in RetryDelays
    /\ overflow_checks \in BuildProfiles(max_retries)
    /\ InitTrace
    /\ ApartIdle

(***************************************************************************)
(* SiteTracer::trace, line 79: the root worker is dispatched.              *)
(***************************************************************************)
TraceStart ==
    /\ pc = "start"
    /\ capacity' = GrowCapacity(capacity, Len(processors))
    /\ processors' = push_processor(processors, worker(Root, 0, 0, now, spawned + 1))
    /\ spawned' = spawned + 1
    /\ pc' = "loop"
    /\ UNCHANGED <<config, apart, link_map, seen, heap, current, now, history>>

(***************************************************************************)
(* Loop head: get_next_processor pops the front handle, or the loop ends.  *)
(***************************************************************************)
NextProcessor ==
    /\ pc = "loop"
    /\ processors # <<>>
    /\ current' = Head(processors)
    /\ processors' = Tail(processors)
    /\ pc' = "await"
    /\ UNCHANGED <<config, apart, spawned, link_map, seen, heap, capacity, now, history>>

TraceFinish ==
    /\ pc = "loop"
    /\ processors = <<>>
    /\ pc' = "done"
    /\ UNCHANGED <<config, apart, spawned, link_map, seen, heap, processors,
                   capacity, current, now, history>>

(***************************************************************************)
(* result.await completes and the match on the result runs (lines 87-104). *)
(***************************************************************************)
HandleLinks(url, value) ==
    LET st == QueueLinks([seen |-> seen, heap |-> heap], value.links,
                         initial_retry_delay_ms, now)
    IN /\ link_map' = add_result(link_map, url, value)
       /\ seen' = st.seen
       /\ heap' = st.heap
       /\ pc' = "refill"

\* The budget test off by one.
RetriesExhausted_OffByOne(retry, max) == retry >= max

RetriesExhausted(retry, max) == retry > max

\* The error is recorded before the budget is consulted.
HandleError_RecordsEveryError(url, value, retry) ==
    IF retry > max_retries
    THEN /\ link_map' = add_result(link_map, url, value)
         /\ pc' = "refill"
         /\ UNCHANGED <<seen, heap>>
    ELSE LET st == queue_to_process([seen |-> seen, heap |-> heap], url, retry,
                                    initial_retry_delay_ms, now)
         IN /\ link_map' = add_result(link_map, url, value)
            /\ seen' = st.seen
            /\ heap' = st.heap
            /\ pc' = "refill"

\* A failure is recorded at once while other workers are in flight.
HandleError_GivesUpWhenBusy(url, value, retry) ==
    IF RetriesExhausted(retry, max_retries) \/ processors # <<>>
    THEN /\ link_map' = add_result(link_map, url, value)
         /\ pc' = "refill"
         /\ UNCHANGED <<seen, heap>>
    ELSE LET st == queue_to_process([seen |-> seen, heap |-> heap], url, retry,
                                    initial_retry_delay_ms, now)
         IN /\ seen' = st.seen
            /\ heap' = st.heap
            /\ pc' = "refill"
            /\ UNCHANGED link_map

HandleError(url, value, retry) ==
    IF RetriesExhausted(retry, max_retries)
    THEN /\ link_map' = add_result(link_map, url, value)
         /\ pc' = "refill"
         /\ UNCHANGED <<seen, heap>>
    ELSE IF ProcessPanics(retry, overflow_checks)
    THEN /\ pc' = "panicked"
         /\ UNCHANGED <<link_map, seen, heap>>
    ELSE LET st == queue_to_process([seen |-> seen, heap |-> heap], url, retry,
                                    initial_retry_delay_ms, now)
         IN /\ seen' = st.seen
            /\ heap' = st.heap
            /\ pc' = "refill"
            /\ UNCHANGED link_map

\* The JoinError is recorded as a failure of the URL the handle was for.
HandleJoinError_RecordsError(url) ==
    /\ link_map' = add_result(link_map, url, Error(ErrRequest))
    /\ pc' = "refill"
    /\ UNCHANGED <<seen, heap>>

HandleJoinError(url) ==
    /\ pc' = "refill"
    /\ UNCHANGED <<link_map, seen, heap>>

AwaitResult ==
    /\ pc = "await"
    /\ current.out.st \in {"ok", "joinerr"}
    /\ IF current.out.st = "ok"
       THEN IF current.out.value.tag = "Links"
            THEN HandleLinks(current.out.url, current.out.value)
            ELSE HandleError(current.out.url, current.out.value, current.out.retry)
       ELSE HandleJoinError(current.url)
    /\ current' = NoHandle
    /\ UNCHANGED <<config, apart, spawned, processors, capacity, now, history>>

(***************************************************************************)
(* The refill loop (lines 105-116): one iteration, and its exit.           *)
(***************************************************************************)
Dispatch ==
    /\ pc = "refill"
    /\ has_process_capacity(processors, capacity)
    /\ heap # <<>>
    /\ \E i \in HeapMax(heap) :
          /\ heap' = RemoveAt(heap, i)
          /\ processors' = push_processor(processors,
                 worker(heap[i].url, heap[i].retry, get_delay(heap[i], now), now,
                        spawned + 1))
    /\ spawned' = spawned + 1
    /\ UNCHANGED <<config, apart, link_map, seen, capacity, current, pc, now, history>>

RefillEnd ==
    /\ pc = "refill"
    /\ ~ (has_process_capacity(processors, capacity) /\ heap # <<>>)
    /\ pc' = "loop"
    /\ UNCHANGED <<config, apart, spawned, link_map, seen, heap, processors,
                   capacity, current, now, history>>

(***************************************************************************)
(* A spawned worker task: after its pre-sleep it calls get_links once and  *)
(* computes its result (lines 42-65).                                      *)
(***************************************************************************)
WorkerStep(h, resp) ==
    [h EXCEPT !.out = WorkerOutput(h.url, h.retry, resp, overflow_checks)]

Record(url, resp) ==
    /\ attempts' = [attempts EXCEPT ![url] = @ + 1]
    /\ failures' = [failures EXCEPT ![url] = IF resp.ok THEN @ ELSE @ + 1]
    /\ lastResp' = [lastResp EXCEPT ![url] = resp]
    /\ prevResp' = [prevResp EXCEPT ![url] = lastResp[url]]
    /\ UNCHANGED crashed

WorkerFetchFrom(fetcher) ==
    /\ pc \in {"loop", "await", "refill"}
    /\ \/ /\ current.out.st = "running"
          /\ current.wake <= now
          /\ \E resp \in fetcher[current.url] :
                /\ current' = WorkerStep(current, resp)
                /\ Record(current.url, resp)
          /\ UNCHANGED processors
       \/ \E i \in DOMAIN processors :
             /\ processors[i].out.st = "running"
             /\ processors[i].wake <= now
             /\ \E resp \in fetcher[processors[i].url] :
                   /\ processors' = [processors EXCEPT ![i] = WorkerStep(@, resp)]
                   /\ Record(processors[i].url, resp)
             /\ UNCHANGED current
    /\ UNCHANGED <<config, apart, spawned, link_map, seen, heap, capacity, pc, now>>

\* Every call may fail with either error kind or serve a page of the site.
AnyFetcher ==
    [u \in Urls |-> {RespOk(b) : b \in Pages(u)} \cup {RespErr(e) : e \in ErrorKinds}]

WorkerFetch == WorkerFetchFrom(AnyFetcher)

Sleeping ==
    \/ current.out.st = "running" /\ current.wake > now
    \/ \E i \in DOMAIN processors : processors[i].out.st = "running" /\ processors[i].wake > now

\* The clock advances while the engine is suspended in result.await; the
\* code between two awaits runs without yielding.
Tick ==
    /\ pc = "await"
    /\ now < MaxTime \/ Sleeping
    /\ now' = now + 1
    /\ UNCHANGED <<config, apart, spawned, link_map, seen, heap, processors,
                   capacity, current, pc, history>>

Next ==
    \/ TraceStart
    \/ NextProcessor
    \/ TraceFinish
    \/ AwaitResult
    \/ Dispatch
    \/ RefillEnd
    \/ WorkerFetch
    \/ Tick

Spec == Init /\ [][Next]_vars

(***************************************************************************)
(* The retry counter at the top of its 8-bit range: max_retries = 255,     *)
(* no retry delay, both build profiles.  DeadLinkFetcher serves a root     *)
(* page that links to /a and fails every request for any other URL;        *)
(* DownFetcher fails every request.                                        *)
(***************************************************************************)
InitWide ==
    /\ worker_pool_size = 1
    /\ max_retries = U8Max
    /\ initial_retry_delay_ms = 0
    /\ overflow_checks \in BuildProfiles(max_retries)
    /\ InitTrace
    /\ ApartIdle

DeadLinkFetcher ==
    [u \in Urls |-> IF u = Root THEN {RespOk(<<HrefSlashA>>)} ELSE {RespErr(ErrRequest)}]

DownFetcher == [u \in Urls |-> {RespErr(ErrRequest)}]

WorkerFetchDeadLink == WorkerFetchFrom(DeadLinkFetcher)

WorkerFetchDown == WorkerFetchFrom(DownFetcher)

NextDeadLink ==
    \/ TraceStart
    \/ NextProcessor
    \/ TraceFinish
    \/ AwaitResult
    \/ Dispatch
    \/ RefillEnd
    \/ WorkerFetchDeadLink
    \/ Tick

NextDown ==
    \/ TraceStart
    \/ NextProcessor
    \/ TraceFinish
    \/ AwaitResult
    \/ Dispatch
    \/ RefillEnd
    \/ WorkerFetchDown
    \/ Tick

SpecDeadLink == InitWide /\ [][NextDeadLink]_vars

SpecDown == InitWide /\ [][NextDown]_vars

\* The runtime keeps scheduling the engine and the spawned tasks, and the
\* clock keeps running.
SpecDownFair == SpecDown /\ WF_vars(NextDown)

(***************************************************************************)
(* Workers that end without a result.  A spawned task may panic or be      *)
(* cancelled at any point before it returns; its JoinHandle then resolves  *)
(* to a JoinError.  The tracer runs with no retry delay, so no worker      *)
(* sleeps and the clock plays no part; the runtime keeps scheduling the    *)
(* engine and the spawned tasks, which is the fairness stated.  The site   *)
(* has a root page linking to /b and /a; every other page is empty or      *)
(* links back; any request may fail.                                       *)
(***************************************************************************)
TwoLinkPage == <<HrefSlashB, HrefSlashA>>

SmallSiteFetcher ==
    [u \in Urls |-> {RespOk(b) : b \in (IF u = Root THEN {TwoLinkPage} ELSE {<<>>, BackPage})}
                        \cup {RespErr(ErrRequest)}]

WorkerFetchSmallSite == WorkerFetchFrom(SmallSiteFetcher)

InitPanic ==
    /\ worker_pool_size \in 1..MaxPool
    /\ max_retries \in 0..MaxRetries
    /\ initial_retry_delay_ms = 0
    /\ overflow_checks \in BuildProfiles(max_retries)
    /\ InitTrace
    /\ ApartIdle

WorkerPanic ==
    /\ pc \in {"loop", "await", "refill"}
    /\ \/ /\ current.out.st = "running"
          /\ current' = [current EXCEPT !.out = JoinErr]
          /\ crashed' = crashed \cup {current.url}
          /\ UNCHANGED processors
       \/ \E i \in DOMAIN processors :
             /\ processors[i].out.st = "running"
             /\ processors' = [processors EXCEPT ![i].out = JoinErr]
             /\ crashed' = crashed \cup {processors[i].url}
             /\ UNCHANGED current
    /\ UNCHANGED <<config, apart, spawned, link_map, seen, heap, capacity, pc, now,
                   attempts, failures, lastResp, prevResp>>

NextPanic ==
    \/ TraceStart
    \/ NextProcessor
    \/ TraceFinish
    \/ AwaitResult
    \/ Dispatch
    \/ RefillEnd
    \/ WorkerFetchSmallSite
    \/ WorkerPanic

SpecPanic == InitPanic /\ [][NextPanic]_vars /\ WF_vars(NextPanic)

(***************************************************************************)
(* A link gatherer that follows a script: the n-th call of get_links for a *)
(* URL returns the n-th response of the URL's script, whenever the call is *)
(* made, and an empty page once the script is used up.  A script is as     *)
(* long as the attempts a URL can get: some failures, of alternating       *)
(* kinds, and the URL's page from then on.                                 *)
(***************************************************************************)
ScriptPage(u) ==
    IF u = Root THEN TwoLinkPage ELSE IF u = HrefAbsA THEN BackPage ELSE <<>>

ScriptError(i) == IF i % 2 = 1 THEN ErrRequest ELSE ErrContent

ScriptsOf(u, n) ==
    {[i \in 1..n |-> IF i <= k THEN RespErr(ScriptError(i)) ELSE RespOk(ScriptPage(u))] :
        k \in 0..n}

Scripts(n) ==
    {[u \in Urls |-> IF u = Root THEN a ELSE IF u = HrefAbsA THEN b ELSE c] :
        a \in ScriptsOf(Root, n),
        b \in ScriptsOf(HrefAbsA, n),
        c \in ScriptsOf(Root \o HrefSlashB, n)}

ScriptedResponse(u) ==
    IF attempts[u] + 1 <= Len(script[u]) THEN script[u][attempts[u] + 1] ELSE RespOk(<<>>)

ScriptedFetcher == [u \in Urls |-> {ScriptedResponse(u)}]

WorkerFetchScripted == WorkerFetchFrom(ScriptedFetcher)

InitScripted ==
    /\ worker_pool_size \in 1..MaxPool
    /\ max_retries \in 0..MaxRetries
    /\ initial_retry_delay_ms \in RetryDelays
    /\ overflow_checks \in BuildProfiles(max_retries)
    /\ InitTrace
    /\ ScoperIdle
    /\ ProcessIdle
    /\ TreeIdle
    /\ RerunIdle
    /\ GatherIdle
    /\ MainIdle
    /\ CompareIdle
    /\ script \in Scripts(max_retries + 1)

NextScripted ==
    \/ TraceStart
    \/ NextProcessor
    \/ TraceFinish
    \/ AwaitResult
    \/ Dispatch
    \/ RefillEnd
    \/ WorkerFetchScripted
    \/ Tick

SpecScripted == InitScripted /\ [][NextScripted]_vars

(***************************************************************************)
(* format_link_as_url on its own: it is called once with a raw href drawn  *)
(* from every string of at most MaxHrefLen bytes over '/', 'H', 'h', 't'   *)
(* and 'p', which holds "http", its near misses and both relative forms.   *)
(***************************************************************************)
HrefAlphabet == {47, 72, 104, 116, 112}

HrefStrings == UNION {[1..k -> HrefAlphabet] : k \in 0..MaxHrefLen}

Returned(v) == [st |-> "ok", value |-> v]

\* No tracer is running: the configuration is held fixed and the trace state
\* is the one Trace::new builds.
InitNoTrace ==
    /\ worker_pool_size = 1
    /\ max_retries = 0
    /\ initial_retry_delay_ms = 0
    /\ overflow_checks = FALSE
    /\ InitTrace

engine ==
    <<config, link_map, seen, heap, processors, capacity, current, pc, spawned, now, history>>

InitScoper ==
    /\ InitNoTrace
    /\ link \in HrefStrings
    /\ formatted = NotCalled
    /\ ProcessIdle
    /\ TreeIdle
    /\ RerunIdle
    /\ GatherIdle
    /\ MainIdle
    /\ CompareIdle
    /\ Unscripted

FormatLink ==
    /\ formatted = NotCalled
    /\ formatted' = Returned(format_link_as_url(link, Root))
    /\ UNCHANGED <<engine, link, process_state, tree_state, rerun_state, gather_state,
                   main_state,
                   compare_state, script>>

NextScoper == FormatLink

SpecScoper == InitScoper /\ [][NextScoper]_vars

(***************************************************************************)
(* Process::new on its own: one call per behaviour, with the base delay    *)
(* and the build profile of the configuration, at the current clock.  The  *)
(* retry is drawn from the first MaxBackoff + 1 values of the u8 and from  *)
(* the values at which 2^retry no longer fits 64 bits.                     *)
(***************************************************************************)
MaxBackoff == 4

RetryInputs == 0..MaxBackoff \cup U64Bits..U8Max

Panicked == [st |-> "panic"]

InitProcess ==
    /\ worker_pool_size = 1
    /\ max_retries = U8Max
    /\ initial_retry_delay_ms \in RetryDelays
    /\ overflow_checks \in BOOLEAN
    /\ InitTrace
    /\ ScoperIdle
    /\ TreeIdle
    /\ RerunIdle
    /\ GatherIdle
    /\ MainIdle
    /\ CompareIdle
    /\ Unscripted
    /\ process_retry \in RetryInputs
    /\ process_new = NotCalled

NewProcess ==
    /\ process_new = NotCalled
    /\ process_new' =
          IF ProcessPanics(process_retry, overflow_checks)
          THEN Panicked
          ELSE Returned(Process(Root, process_retry, initial_retry_delay_ms, now))
    /\ UNCHANGED <<engine, scoper_state, tree_state, process_retry, rerun_state,
                   gather_state, main_state,
                   compare_state, script>>

NextProcess == NewProcess

SpecProcess == InitProcess /\ [][NextProcess]_vars

(***************************************************************************)
(* The tree renderer, to_tree.  A line of the output is kept as its parts: *)
(* the indent as one token per level, the URL, the marker and the error    *)
(* annotation.  The box-drawing prefixes and the markers are named.        *)
(***************************************************************************)
Tee == "tee"
Corner == "corner"
Pipe == "pipe"
Blank == "blank"

NoMarker == "none"
CycleMarker == "cycle"
SharedMarker == "shared"

Processed == 100

\* A call other than the first starts from the counts the call before left.
CountMap_new_Kept == IF tree = NotCalled THEN <<>> ELSE visited

\* CountMap
CountMap_new == <<>>

\* A push sets the count to 1 whatever it was.
increment_Resets(counts, url) ==
    [u \in DOMAIN counts \cup {url} |-> IF u = url THEN 1 ELSE counts[u]]

increment(counts, url) ==
    [u \in DOMAIN counts \cup {url} |->
        IF u = url
        THEN IF url \in DOMAIN counts THEN counts[url] + 1 ELSE 1
        ELSE counts[u]]

\* A pop leaves the count as it was.
decrement_Skipped(counts, url) == counts

decrement(counts, url) ==
    IF url \in DOMAIN counts THEN [counts EXCEPT ![url] = @ - 1] ELSE counts

\* An expansion leaves the count as it was.
processed_Skipped(counts, url) == counts

processed(counts, url) ==
    IF url \in DOMAIN counts THEN [counts EXCEPT ![url] = Processed] ELSE counts

is_queued_for_processing(counts, url) ==
    url \in DOMAIN counts /\ counts[url] > 0

\* The branch of a line is the corner whatever is_tail says.
get_indent_AlwaysCorner(level, active_levels, is_tail) ==
    IF level = 0 THEN <<>>
    ELSE [x \in 1..level |->
            IF x = level
            THEN Corner
            ELSE IF x <= Len(active_levels) /\ active_levels[x] THEN Pipe ELSE Blank]

\* No column before the branch carries a bar.
get_indent_NoBars(level, active_levels, is_tail) ==
    IF level = 0 THEN <<>>
    ELSE [x \in 1..level |->
            IF x = level
            THEN IF is_tail THEN Tee ELSE Corner
            ELSE Blank]

get_indent(level, active_levels, is_tail) ==
    IF level = 0 THEN <<>>
    ELSE [x \in 1..level |->
            IF x = level
            THEN IF is_tail THEN Tee ELSE Corner
            ELSE IF x <= Len(active_levels) /\ active_levels[x] THEN Pipe ELSE Blank]

get_next_level(items) == IF items = <<>> THEN -1 ELSE Head(items).level

Item(url, level, active, parents) ==
    [url |-> url, level |-> level, active |-> active, parents |-> parents]

\* The queued test is made before the ancestor test.
Disposition_SharedFirst(url, parents, counts) ==
    IF is_queued_for_processing(counts, url) THEN SharedMarker
    ELSE IF url \in parents THEN CycleMarker
    ELSE NoMarker

\* Every popped item is expanded.
Disposition_AlwaysExpand(url, parents, counts) == NoMarker

\* Lines 113-119: which of the three branches a popped item takes.
Disposition(url, parents, counts) ==
    IF url \in parents THEN CycleMarker
    ELSE IF is_queued_for_processing(counts, url) THEN SharedMarker
    ELSE NoMarker

\* Lines 123-131: the links are pushed to the front from the last to the first.
RECURSIVE PushLinks(_, _, _, _, _)
PushLinks(st, links, new_active, level, new_parents) ==
    IF links = <<>> THEN st
    ELSE LET last == links[Len(links)]
         IN PushLinks([dfs |-> <<Item(last, level + 1, new_active, new_parents)>> \o st.dfs,
                       visited |-> increment(st.visited, last)],
                      SubSeq(links, 1, Len(links) - 1), new_active, level, new_parents)

NoAnnotation == [shown |-> "none"]

\* link_map.map.get(&url) found nothing.
NoEntry == [tag |-> "None"]

ErrorAnnotation(err) ==
    IF err.kind = "Request"
    THEN [code |-> err.code, shown |-> "code"]
    ELSE [shown |-> "quoted", text |-> err.message]

\* The annotation is written whatever the marker.
ErrorText_IgnoresMarker(cycle, entry) ==
    IF entry.tag = "Error" THEN ErrorAnnotation(entry.err) ELSE NoAnnotation

\* Lines 136-145: the annotation of a line, given its marker and the map's
\* entry for its URL.
ErrorText(cycle, entry) ==
    IF cycle = NoMarker /\ entry.tag = "Error"
    THEN ErrorAnnotation(entry.err)
    ELSE NoAnnotation

Line(indent, url, cycle, error) ==
    [url |-> url, indent |-> indent, error |-> error, marker |-> cycle]

\* One iteration of the while loop (lines 98-151).
ToTreeStep ==
    /\ tree = NotCalled
    /\ dfs # <<>>
    /\ LET item == Head(dfs)
           rest == Tail(dfs)
           counts == decrement(visited, item.url)
           next_level == get_next_level(rest)
           is_tail == item.level <= next_level
           new_active == IF item.level > 0
                         THEN Append(item.active, item.level = next_level)
                         ELSE item.active
           cycle == Disposition(item.url, item.parents, counts)
           entry == IF item.url \in DOMAIN tree_map THEN tree_map[item.url] ELSE NoEntry
           expanded == IF cycle = NoMarker /\ entry.tag = "Links"
                       THEN PushLinks([dfs |-> rest, visited |-> processed(counts, item.url)],
                                      entry.links, new_active, item.level,
                                      item.parents \cup {item.url})
                       ELSE [dfs |-> rest,
                             visited |-> IF cycle = NoMarker
                                         THEN processed(counts, item.url)
                                         ELSE counts]
           indent == get_indent(item.level, item.active, is_tail)
           error == ErrorText(cycle, entry)
       IN /\ dfs' = expanded.dfs
          /\ visited' = expanded.visited
          /\ output' = Append(output, Line(indent, item.url, cycle, error))
    /\ UNCHANGED <<engine, scoper_state, process_state, tree_map, tree, rerun_state,
                   gather_state, main_state,
                   compare_state, script>>

\* The loop ends on an empty deque and the output is returned (line 152).
ToTreeReturn ==
    /\ tree = NotCalled
    /\ dfs = <<>>
    /\ tree' = Returned(output)
    /\ UNCHANGED <<engine, scoper_state, process_state, tree_map, dfs, visited, output,
                   rerun_state, gather_state, main_state,
                   compare_state, script>>

(***************************************************************************)
(* The maps rendered: every map over the three URLs of the site in which   *)
(* a URL has no entry, an Error of either kind, or Links of at most        *)
(* MaxLinks URLs, repeats allowed.                                         *)
(***************************************************************************)
MaxLinks == 2

SeqsUpTo(S, n) == UNION {[1..k -> S] : k \in 0..n}

LinkMapValues ==
    {NoEntry} \cup {Error(e) : e \in ErrorKinds} \cup {Links(l) : l \in SeqsUpTo(Urls, MaxLinks)}

LinkMapOf(f) == [u \in {v \in DOMAIN f : f[v] # NoEntry} |-> f[u]]

LinkMaps == {LinkMapOf(f) : f \in [Urls -> LinkMapValues]}

InitTree ==
    /\ InitNoTrace
    /\ ScoperIdle
    /\ ProcessIdle
    /\ RerunIdle
    /\ GatherIdle
    /\ MainIdle
    /\ CompareIdle
    /\ Unscripted
    /\ tree_map \in LinkMaps
    /\ tree = NotCalled
    /\ dfs = <<Item(Root, 0, <<>>, {})>>
    /\ visited = CountMap_new
    /\ output = <<>>

NextTree == ToTreeStep \/ ToTreeReturn

SpecTree == InitTree /\ [][NextTree]_vars

(***************************************************************************)
(* to_tree running to its end: it is a plain loop, never suspended, which  *)
(* is the fairness stated.  The maps are those in which the root has       *)
(* links, /a has any value, and /b is a leaf: no entry, an error, no       *)
(* links, or a link back to the root.                                      *)
(***************************************************************************)
LeafValues == {NoEntry, Error(ErrRequest), Links(<<>>), Links(<<Root>>)}

LeafMaps ==
    {LinkMapOf([u \in Urls |-> IF u = Root THEN Links(r)
                               ELSE IF u = HrefAbsA THEN a
                               ELSE b]) :
        r \in SeqsUpTo(Urls, MaxLinks), a \in LinkMapValues, b \in LeafValues}

InitTreeFair ==
    /\ InitNoTrace
    /\ ScoperIdle
    /\ ProcessIdle
    /\ RerunIdle
    /\ GatherIdle
    /\ MainIdle
    /\ CompareIdle
    /\ Unscripted
    /\ tree_map \in LeafMaps
    /\ tree = NotCalled
    /\ dfs = <<Item(Root, 0, <<>>, {})>>
    /\ visited = CountMap_new
    /\ output = <<>>

SpecTreeFair == InitTreeFair /\ [][NextTree]_vars /\ WF_vars(NextTree)

(***************************************************************************)
(* The renderer called a second time.  The first call's map and value are  *)
(* kept, the map is built again by adding the same entries in any order,   *)
(* and to_tree starts over on it.                                          *)
(***************************************************************************)
Orders(K) ==
    {o \in [1..Cardinality(K) -> K] : \A a, b \in DOMAIN o : a # b => o[a] # o[b]}

RECURSIVE AddAll(_, _, _)
AddAll(map, order, values) ==
    IF order = <<>> THEN map
    ELSE AddAll(add_result(map, Head(order), values[Head(order)]), Tail(order), values)

ToTreeAgain ==
    /\ tree.st = "ok"
    /\ first = NotCalled
    /\ first' = [link_map |-> tree_map, st |-> "ok", value |-> tree.value]
    /\ \E order \in Orders(DOMAIN tree_map) : tree_map' = AddAll(<<>>, order, tree_map)
    /\ dfs' = <<Item(Root, 0, <<>>, {})>>
    /\ visited' = CountMap_new
    /\ output' = <<>>
    /\ tree' = NotCalled
    /\ UNCHANGED <<engine, scoper_state, process_state, gather_state, main_state,
                   compare_state, script>>

NextTwice == ToTreeStep \/ ToTreeReturn \/ ToTreeAgain

SpecTwice == InitTree /\ [][NextTwice]_vars

(***************************************************************************)
(* The renderer on deeper maps: five URLs in a fixed order, each with the  *)
(* Links of at most MaxLinks distinct URLs that come later in the order,   *)
(* so that the maps are acyclic and a URL can sit three levels down.       *)
(***************************************************************************)
UrlA == HrefAbsA
UrlB == Root \o HrefSlashB
UrlC == Root \o <<47, 99>>
UrlD == Root \o <<47, 100>>

DagOrder == <<Root, UrlA, UrlB, UrlC, UrlD>>

DagLinks(i) ==
    {l \in SeqsUpTo({DagOrder[j] : j \in (i + 1)..Len(DagOrder)}, MaxLinks) :
        \A a, b \in DOMAIN l : a # b => l[a] # l[b]}

DagMaps ==
    {[u \in {DagOrder[i] : i \in DOMAIN DagOrder} |->
        Links(CASE u = Root -> l1 [] u = UrlA -> l2 [] u = UrlB -> l3
                [] u = UrlC -> l4 [] OTHER -> <<>>)] :
        l1 \in DagLinks(1), l2 \in DagLinks(2), l3 \in DagLinks(3), l4 \in DagLinks(4)}

InitDag ==
    /\ InitNoTrace
    /\ ScoperIdle
    /\ ProcessIdle
    /\ RerunIdle
    /\ GatherIdle
    /\ MainIdle
    /\ CompareIdle
    /\ Unscripted
    /\ tree_map \in DagMaps
    /\ tree = NotCalled
    /\ dfs = <<Item(Root, 0, <<>>, {})>>
    /\ visited = CountMap_new
    /\ output = <<>>

SpecDag == InitDag /\ [][NextTree]_vars

(***************************************************************************)
(* The link gatherer, Page::get_links.  A response body is kept as the     *)
(* sequence of its elements: an anchor with an href, an anchor without     *)
(* one, or an element that is not an anchor.  The content getter returns a *)
(* body of at most MaxElements elements or an error.                       *)
(***************************************************************************)
MaxElements == 2

Anchor(href) == [tag |-> "a", href |-> [value |-> href, some |-> TRUE]]
BareAnchor == [tag |-> "a", href |-> [some |-> FALSE]]
Paragraph == [tag |-> "p", href |-> [some |-> FALSE]]

Elements == {Anchor(h) : h \in RawHrefs} \cup {BareAnchor, Paragraph}

GetterErrors ==
    ErrorKinds \cup {[kind |-> "Request", code |-> 0], [kind |-> "Request", code |-> 404],
                     [kind |-> "Content", message |-> ""]}

ContentOk(text) == [ok |-> TRUE, text |-> text]
ContentErr(e) == [err |-> e, ok |-> FALSE]

\* html.select("a") with the flat_map over attr("href"), in document order.
RECURSIVE SelectHrefs(_)
SelectHrefs(text) ==
    IF text = <<>> THEN <<>>
    ELSE (IF Head(text).tag = "a" /\ Head(text).href.some
          THEN <<Head(text).href.value>>
          ELSE <<>>) \o SelectHrefs(Tail(text))

\* A failure of the content getter is returned as a page without links.
get_links_ErrorAsNoLinks(content) ==
    IF content.ok THEN RespOk(SelectHrefs(content.text)) ELSE RespOk(<<>>)

get_links(content) ==
    IF content.ok THEN RespOk(SelectHrefs(content.text)) ELSE RespErr(content.err)

InitGather ==
    /\ InitNoTrace
    /\ ScoperIdle
    /\ ProcessIdle
    /\ TreeIdle
    /\ RerunIdle
    /\ MainIdle
    /\ CompareIdle
    /\ Unscripted
    /\ body \in {ContentOk(t) : t \in SeqsUpTo(Elements, MaxElements)}
                \cup {ContentErr(e) : e \in GetterErrors}
    /\ gathered = NotCalled

GetLinks ==
    /\ gathered = NotCalled
    /\ gathered' = get_links(body)
    /\ UNCHANGED <<engine, scoper_state, process_state, tree_state, rerun_state, main_state,
                   body,
                   compare_state, script>>

NextGather == GetLinks

SpecGather == InitGather /\ [][NextGather]_vars

(***************************************************************************)
(* main: the command line is parsed; on success a tracer with the fixed    *)
(* settings traces the URL and the tree of the result is printed, on       *)
(* failure the parse error is printed; then main returns.  The site is the *)
(* small one.  The frames trace prints while it runs are left out of       *)
(* stdout.                                                                 *)
(***************************************************************************)
MainPool == 100
MainRetries == 3
MainDelay == 250

CliOk(url) == [ok |-> TRUE, url |-> url]
CliErr(kind) == [err |-> kind, ok |-> FALSE]

CliResults ==
    {CliOk(Root)} \cup
    {CliErr(k) : k \in {"MissingRequiredArgument", "UnknownArgument", "DisplayHelp",
                        "DisplayVersion"}}

\* main returns and the process ends with the status of a returning main.
Exited(code) == [code |-> code, st |-> "exited"]

InitMain ==
    /\ worker_pool_size = MainPool
    /\ max_retries = MainRetries
    /\ initial_retry_delay_ms = MainDelay
    /\ overflow_checks \in BuildProfiles(max_retries)
    /\ InitTrace
    /\ ScoperIdle
    /\ ProcessIdle
    /\ TreeIdle
    /\ RerunIdle
    /\ GatherIdle
    /\ CompareIdle
    /\ Unscripted
    /\ main_pc = "start"
    /\ args = NotCalled
    /\ stdout = <<>>
    /\ exit_code = NotCalled

MainParse ==
    /\ main_pc = "start"
    /\ \E r \in CliResults :
          /\ args' = r
          /\ main_pc' = IF r.ok THEN "trace" ELSE "error"
    /\ UNCHANGED <<engine, scoper_state, process_state, tree_state, rerun_state,
                   gather_state, stdout, exit_code,
                   compare_state, script>>

MainTrace ==
    /\ main_pc = "trace"
    /\ \/ TraceStart
       \/ NextProcessor
       \/ TraceFinish
       \/ AwaitResult
       \/ Dispatch
       \/ RefillEnd
       \/ WorkerFetchSmallSite
       \/ Tick

\* trace has returned the link map and LinkMap::to_tree calls to_tree on it.
MainToTree ==
    /\ main_pc = "trace"
    /\ pc = "done"
    /\ main_pc' = "to_tree"
    /\ tree_map' = link_map
    /\ dfs' = <<Item(Root, 0, <<>>, {})>>
    /\ visited' = CountMap_new
    /\ output' = <<>>
    /\ UNCHANGED <<engine, scoper_state, process_state, tree, rerun_state, gather_state,
                   args, stdout, exit_code,
                   compare_state, script>>

MainRender ==
    /\ main_pc = "to_tree"
    /\ NextTree

MainPrintTree ==
    /\ main_pc = "to_tree"
    /\ tree.st = "ok"
    /\ stdout' = Append(stdout, [printed |-> "tree", lines |-> tree.value])
    /\ exit_code' = Exited(0)
    /\ main_pc' = "exit"
    /\ UNCHANGED <<engine, scoper_state, process_state, tree_state, rerun_state,
                   gather_state, args,
                   compare_state, script>>

MainPrintError ==
    /\ main_pc = "error"
    /\ stdout' = Append(stdout, [error |-> args.err, printed |-> "error"])
    /\ exit_code' = Exited(0)
    /\ main_pc' = "exit"
    /\ UNCHANGED <<engine, scoper_state, process_state, tree_state, rerun_state,
                   gather_state, args,
                   compare_state, script>>

NextMain ==
    \/ MainParse
    \/ MainTrace
    \/ MainToTree
    \/ MainRender
    \/ MainPrintTree
    \/ MainPrintError

SpecMain == InitMain /\ [][NextMain]_vars

(***************************************************************************)
(* The comparisons of Process on their own: two items are drawn and ==, <, *)
(* <=, cmp and partial_cmp are applied to them.                            *)
(***************************************************************************)
ProcessItems ==
    {[url |-> u, retry |-> r, timestamp |-> t] :
        u \in Urls, r \in 0..MaxRetries, t \in 0..MaxTime}

InitCompare ==
    /\ InitNoTrace
    /\ ScoperIdle
    /\ ProcessIdle
    /\ TreeIdle
    /\ RerunIdle
    /\ GatherIdle
    /\ MainIdle
    /\ Unscripted
    /\ lhs \in ProcessItems
    /\ rhs \in ProcessItems
    /\ compared = NotCalled

Compare ==
    /\ compared = NotCalled
    /\ compared' = [st |-> "ok",
                    eq |-> eq(lhs, rhs),
                    cmp |-> cmp(lhs, rhs),
                    partial_cmp |-> partial_cmp(lhs, rhs),
                    lt |-> lt(lhs, rhs),
                    le |-> le(lhs, rhs)]
    /\ UNCHANGED <<engine, scoper_state, process_state, tree_state, rerun_state,
                   gather_state, main_state, lhs, rhs, script>>

NextCompare == Compare

SpecCompare == InitCompare /\ [][NextCompare]_vars

(***************************************************************************)
(* Helpers for stating properties.                                         *)
(***************************************************************************)
Range(s) == {s[i] : i \in DOMAIN s}

HasLinks(u) == u \in DOMAIN link_map /\ link_map[u].tag = "Links"

HasError(u) == u \in DOMAIN link_map /\ link_map[u].tag = "Error"

NoDuplicates(s) == \A i, j \in DOMAIN s : i # j => s[i] # s[j]

Handles == Range(processors) \cup {current}

(***************************************************************************)
(* C1: every URL in any Links value, in the link map and in the result of  *)
(* any worker, has the root URL as a prefix, whatever hrefs were fetched.  *)
(***************************************************************************)
AllInScope(l) == \A i \in DOMAIN l : StartsWith(l[i], Root)

C1_LinksInScope ==
    /\ \A u \in DOMAIN link_map : link_map[u].tag = "Links" => AllInScope(link_map[u].links)
    /\ \A h \in Handles :
          (h.out.st = "ok" /\ h.out.value.tag = "Links") => AllInScope(h.out.value.links)

C1_Witness ==
    /\ HasLinks(Root)
    /\ lastResp[Root].ok
    /\ Foreign \in Range(lastResp[Root].links)
    /\ link_map[Root].links # <<>>

(***************************************************************************)
(* C2: the number of handles in the in-flight collection never exceeds     *)
(* worker_pool_size, for every pool size including 0.                      *)
(***************************************************************************)
C2_InFlightWithinPool == Len(processors) <= worker_pool_size

(***************************************************************************)
(* C3: a URL whose entry is Error was fetched exactly max_retries + 1      *)
(* times, whichever error kinds its attempts returned.                     *)
(***************************************************************************)
C3_ErrorAfterBudget ==
    \A u \in Urls : HasError(u) => attempts[u] = max_retries + 1

C3_Witness ==
    \E u \in Urls :
        /\ HasError(u)
        /\ max_retries >= 1
        /\ prevResp[u] # lastResp[u]

(***************************************************************************)
(* C4: a URL that fails k <= max_retries times and then succeeds ends as   *)
(* Links computed from the successful response, its links have been        *)
(* offered for discovery, and no Error is recorded for it: an Error entry  *)
(* requires more than max_retries failures.                                *)
(***************************************************************************)
SucceededAfterFailures(u) ==
    /\ attempts[u] >= 1
    /\ lastResp[u].ok
    /\ failures[u] = attempts[u] - 1
    /\ failures[u] <= max_retries

C4_RetrySucceeds ==
    \A u \in Urls :
        /\ HasError(u) => failures[u] > max_retries
        /\ SucceededAfterFailures(u) =>
              /\ u \in DOMAIN link_map =>
                    /\ link_map[u] = Links(FilteredLinks(lastResp[u].links, Root))
                    /\ Range(link_map[u].links) \subseteq seen
              /\ pc = "done" => u \in DOMAIN link_map

C4_Witness ==
    \E u \in Urls :
        /\ pc = "done"
        /\ max_retries >= 1
        /\ failures[u] = max_retries
        /\ SucceededAfterFailures(u)
        /\ HasLinks(u)
        /\ link_map[u].links # <<>>

(***************************************************************************)
(* C5: the Error recorded for a URL is the error of its latest attempt.    *)
(***************************************************************************)
C5_LastErrorRecorded ==
    \A u \in Urls : HasError(u) => (~ lastResp[u].ok /\ link_map[u] = Error(lastResp[u].err))

C5_Witness ==
    \E u \in Urls :
        /\ HasError(u)
        /\ attempts[u] >= 2
        /\ ~ prevResp[u].ok
        /\ prevResp[u].err # lastResp[u].err

(***************************************************************************)
(* C6: the trace returns only with the process queue empty and no worker   *)
(* in flight, and when both are empty at the loop head the engine's next   *)
(* step is to return.                                                      *)
(***************************************************************************)
Drained == heap = <<>> /\ processors = <<>> /\ current = NoHandle

C6_ReturnsIffDrained ==
    [][ /\ pc' = "done" => Drained'
        /\ (pc = "loop" /\ Drained /\ pc' # pc) => pc' = "done" ]_vars

C6_Witness ==
    /\ pc = "done"
    /\ Drained
    /\ Cardinality(DOMAIN link_map) >= 2

(***************************************************************************)
(* C7: when the trace completes, every URL in a Links value is a key of    *)
(* the link map.                                                           *)
(***************************************************************************)
C7_ClosedUnderDiscovery ==
    pc = "done" =>
        \A u \in DOMAIN link_map :
            link_map[u].tag = "Links" => Range(link_map[u].links) \subseteq DOMAIN link_map

(***************************************************************************)
(* C8: when the trace completes, the root URL is a key of the link map.    *)
(***************************************************************************)
C8_RootRecorded == pc = "done" => Root \in DOMAIN link_map

(***************************************************************************)
(* C9: a failing URL never aborts the trace, and once the trace completes  *)
(* every URL all of whose attempts failed has an Error entry, while every  *)
(* Links entry is the one computed from that URL's own response.           *)
(***************************************************************************)
C9_FailuresRecorded ==
    /\ pc # "panicked"
    /\ pc = "done" =>
          \A u \in Urls :
              /\ (attempts[u] >= 1 /\ failures[u] = attempts[u]) => HasError(u)
              /\ HasLinks(u) =>
                    (lastResp[u].ok /\ link_map[u] = Links(FilteredLinks(lastResp[u].links, Root)))

(***************************************************************************)
(* C10: no URL occurs twice in a Links value.                              *)
(***************************************************************************)
C10_NoDuplicateLinks ==
    \A u \in DOMAIN link_map : link_map[u].tag = "Links" => NoDuplicates(link_map[u].links)

(***************************************************************************)
(* C11: the URLs of every Links value in the link map are in ascending     *)
(* lexicographic order.                                                    *)
(***************************************************************************)
Ascending(l) == \A i, j \in DOMAIN l : i < j => ~ StrLess(l[j], l[i])

C11_LinksSorted ==
    \A u \in DOMAIN link_map : link_map[u].tag = "Links" => Ascending(link_map[u].links)

(***************************************************************************)
(* C12: format_link_as_url applies three rules in order: a href starting   *)
(* with "http" is returned unchanged; otherwise one starting with "/" is   *)
(* appended to the root; otherwise it is appended to the root and a "/".   *)
(* Whatever the second and third rules return starts with the root.        *)
(***************************************************************************)
C12_ScoperRules ==
    formatted # NotCalled =>
        IF StartsWith(link, Http)
        THEN formatted.value = link
        ELSE /\ StartsWith(formatted.value, Root)
             /\ IF StartsWith(link, Slash)
                THEN formatted.value = Root \o link
                ELSE formatted.value = Root \o Slash \o link

C12_Witness ==
    /\ formatted # NotCalled
    /\ StartsWith(link, Slash \o Http)
    /\ formatted.value = Root \o link

(***************************************************************************)
(* C13: a URL that does not start with the root is never a member of seen, *)
(* never queued in the heap, never the URL of a worker, and never a key of *)
(* the link map.                                                           *)
(***************************************************************************)
EngineUrls ==
    seen \cup {heap[i].url : i \in DOMAIN heap}
         \cup {h.url : h \in Handles \ {NoHandle}}
         \cup DOMAIN link_map

C13_OutOfScopeDiscarded == \A u \in EngineUrls : StartsWith(u, Root)

C13_Witness ==
    /\ pc = "done"
    /\ lastResp[Root].ok
    /\ Foreign \in Range(lastResp[Root].links)
    /\ Cardinality(seen) >= 2
    /\ Cardinality(DOMAIN link_map) >= 2

(***************************************************************************)
(* C14: a URL enters seen once and is queued with retry = 0 at most once.  *)
(* No step removes a URL from seen; a step that inserts a URL queues       *)
(* exactly one retry-0 item for it; no step queues a retry-0 item for a    *)
(* URL that is already in seen; and at any moment a URL has at most one    *)
(* initial unit of work (a retry-0 item or a retry-0 worker), and none if  *)
(* it is outside seen or has been attempted twice.                         *)
(***************************************************************************)
InitialItems(h, u) == {i \in DOMAIN h : h[i].url = u /\ h[i].retry = 0}

InitialWorkers(u) ==
    {i \in DOMAIN processors : processors[i].url = u /\ processors[i].retry = 0}

InitialUnits(u) ==
    Cardinality(InitialItems(heap, u)) + Cardinality(InitialWorkers(u))
        + (IF current # NoHandle /\ current.url = u /\ current.retry = 0 THEN 1 ELSE 0)

C14_OneInitialUnit ==
    \A u \in Urls :
        /\ InitialUnits(u) <= 1
        /\ u \notin seen => InitialUnits(u) = 0
        /\ attempts[u] >= 2 => InitialUnits(u) = 0

C14_StepSeenOnce ==
    /\ seen \subseteq seen'
    /\ \A u \in seen :
          Cardinality(InitialItems(heap', u)) <= Cardinality(InitialItems(heap, u))
    /\ \A u \in seen' \ seen :
          Cardinality(InitialItems(heap', u)) = 1

C14_SeenOnce == [] C14_OneInitialUnit /\ [][C14_StepSeenOnce]_vars

C14_Witness ==
    \E u \in Urls \ {Root} :
        /\ HasLinks(u)
        /\ Root \in Range(link_map[u].links)
        /\ \E i \in DOMAIN heap :
              /\ heap[i].retry >= 1
              /\ heap[i].url \in Range(link_map[u].links)
              /\ heap[i].url \in Range(link_map[Root].links)

(***************************************************************************)
(* C15: the worker the engine awaits is the one spawned longest ago among  *)
(* all workers in flight: while the engine awaits, every handle still in   *)
(* the deque was spawned after the awaited one.  Stated for pools of one   *)
(* worker or more, where the in-flight count is the configured one.        *)
(***************************************************************************)
C15_AwaitsOldest ==
    (pc = "await" /\ worker_pool_size >= 1) =>
        \A i \in DOMAIN processors : current.nth < processors[i].nth

(***************************************************************************)
(* C16: every pop from the heap removes an item whose timestamp is minimal *)
(* among the items queued at that moment, so an item without delay leaves  *)
(* the heap before a retry whose delay lies ahead.                         *)
(***************************************************************************)
Popped(i) ==
    /\ heap' = RemoveAt(heap, i)
    /\ processors' # <<>>
    /\ Head(processors').url = heap[i].url
    /\ Head(processors').retry = heap[i].retry
    /\ Head(processors').wake = now + get_delay(heap[i], now)

C16_PopsEarliest ==
    [][ Len(heap') < Len(heap) =>
            \E i \in DOMAIN heap :
                Popped(i) /\ \A j \in DOMAIN heap : heap[i].timestamp <= heap[j].timestamp ]_vars

(***************************************************************************)
(* C17: an item created for retry r >= 1 is eligible at its creation time  *)
(* plus initial_retry_delay_ms * 2^r, and an item created for retry 0 is   *)
(* eligible at its creation time.  The product is tested by halving: a     *)
(* delay of 0 equals base * 2^r when base is 0, and a positive delay does  *)
(* when halving it r times leaves base with no remainder on the way.       *)
(***************************************************************************)
RECURSIVE IsScaled(_, _, _)
IsScaled(delay, base, r) ==
    IF r = 0 THEN delay = base
    ELSE IF delay = 0 THEN base = 0
    ELSE delay % 2 = 0 /\ IsScaled(delay \div 2, base, r - 1)

C17_BackoffDoubles ==
    process_new \notin {NotCalled, Panicked} =>
        IF process_retry = 0
        THEN process_new.value.timestamp = now
        ELSE IsScaled(process_new.value.timestamp - now, initial_retry_delay_ms,
                      process_retry)

(***************************************************************************)
(* C18: a worker that ends by panic or cancellation leaves no entry for    *)
(* its URL and is not rescheduled: the URL stays in seen, has no entry, no *)
(* queued item and no worker other than the one that ended; the trace      *)
(* handles the remaining work, so that at its end every other URL in seen  *)
(* has its entry; and the trace ends.                                      *)
(***************************************************************************)
C18_Dropped ==
    /\ \A u \in crashed :
          /\ u \in seen
          /\ u \notin DOMAIN link_map
          /\ \A i \in DOMAIN heap : heap[i].url # u
          /\ \A h \in Handles : h.url = u => h.out = JoinErr
    /\ pc = "done" => \A u \in seen \ crashed : u \in DOMAIN link_map

C18_PanicDropped == [] C18_Dropped /\ <>(pc = "done")

C18_Witness ==
    /\ pc = "done"
    /\ \E u \in crashed : attempts[u] >= 1
    /\ \E u \in seen \ crashed : u # Root /\ HasError(u)

(***************************************************************************)
(* Helpers for the renderer: the last line written, the URLs carried by    *)
(* the items still on the deque behind the front one, the URLs already     *)
(* written without a marker, and the items a URL's links are pushed as.    *)
(***************************************************************************)
LastLine(lines) == lines[Len(lines)]

Popping == dfs # <<>> /\ output' # output

PendingBehind == {dfs[i].url : i \in 2..Len(dfs)}

Unmarked == {output[i].url : i \in {j \in DOMAIN output : output[j].marker = NoMarker}}

ChildItems(item) ==
    IF item.url \in DOMAIN tree_map /\ tree_map[item.url].tag = "Links"
    THEN [i \in DOMAIN tree_map[item.url].links |->
             [url |-> tree_map[item.url].links[i],
              level |-> item.level + 1,
              parents |-> item.parents \cup {item.url}]]
    ELSE <<>>

Bare(items) ==
    [i \in DOMAIN items |->
        [url |-> items[i].url, level |-> items[i].level, parents |-> items[i].parents]]

(***************************************************************************)
(* C19: an item whose URL is in its own parents set is written with the    *)
(* cycle marker and nothing is pushed for it, whether or not the map holds *)
(* Links for the URL and whether or not another item for the URL is still  *)
(* on the deque.                                                           *)
(***************************************************************************)
C19_CycleNotExpanded ==
    [][ (Popping /\ Head(dfs).url \in Head(dfs).parents) =>
            /\ LastLine(output').url = Head(dfs).url
            /\ LastLine(output').marker = CycleMarker
            /\ dfs' = Tail(dfs) ]_vars

C19_Witness ==
    /\ output # <<>>
    /\ dfs # <<>>
    /\ LastLine(output).marker = CycleMarker
    /\ Head(dfs).url = LastLine(output).url
    /\ LastLine(output).url \in DOMAIN tree_map
    /\ tree_map[LastLine(output).url].tag = "Links"
    /\ tree_map[LastLine(output).url].links # <<>>

(***************************************************************************)
(* C20: an item whose URL is not among its parents but is carried by       *)
(* another item still on the deque is written with the shared marker and   *)
(* nothing is pushed for it; an item whose URL is not among its parents,   *)
(* is carried by no other item and has not been written unmarked before is *)
(* written unmarked with its links pushed as its children; and an item is  *)
(* written unmarked only when no other item carries its URL.               *)
(***************************************************************************)
C20_SharedNotExpanded ==
    [][ (Popping /\ Head(dfs).url \notin Head(dfs).parents) =>
            /\ LastLine(output').url = Head(dfs).url
            /\ Head(dfs).url \in PendingBehind =>
                  /\ LastLine(output').marker = SharedMarker
                  /\ dfs' = Tail(dfs)
            /\ (Head(dfs).url \notin PendingBehind /\ Head(dfs).url \notin Unmarked) =>
                  /\ LastLine(output').marker = NoMarker
                  /\ Bare(dfs') = ChildItems(Head(dfs)) \o Bare(Tail(dfs))
            /\ LastLine(output').marker = NoMarker => Head(dfs).url \notin PendingBehind ]_vars

C20_Witness ==
    \E i, j \in DOMAIN output :
        /\ i < j
        /\ j < Len(output)
        /\ output[i].marker = SharedMarker
        /\ output[j].url = output[i].url
        /\ output[j].marker = NoMarker
        /\ Len(output[j + 1].indent) = Len(output[j].indent) + 1

(***************************************************************************)
(* Helpers for the returned rendering: the level of a line, the lines of a *)
(* URL, and whether the line after a given one is a child of it.           *)
(***************************************************************************)
LevelOf(line) == Len(line.indent)

HasChildBeneath(lines, i) ==
    i < Len(lines) /\ LevelOf(lines[i + 1]) > LevelOf(lines[i])

(***************************************************************************)
(* C21: in the returned rendering, a line written unmarked is at the       *)
(* smallest level among the lines of its URL and is the first of the lines *)
(* of its URL at that level, and every other line of the URL has no child  *)
(* beneath it.                                                             *)
(***************************************************************************)
C21_ShallowestExpanded ==
    tree.st = "ok" =>
        \A i, j \in DOMAIN tree.value :
            (/\ i # j
             /\ tree.value[i].url = tree.value[j].url
             /\ tree.value[i].marker = NoMarker) =>
                /\ LevelOf(tree.value[i]) <= LevelOf(tree.value[j])
                /\ LevelOf(tree.value[i]) = LevelOf(tree.value[j]) => i < j
                /\ ~ HasChildBeneath(tree.value, j)

(***************************************************************************)
(* C22: a written line carries an error annotation exactly when the map's  *)
(* entry for its URL is an Error and the line has neither marker; the      *)
(* annotation is the code for Request and the quoted message for Content.  *)
(***************************************************************************)
EntryOf(url) == IF url \in DOMAIN tree_map THEN tree_map[url] ELSE NoEntry

C22_ErrorOnUnmarkedOnly ==
    \A i \in DOMAIN output :
        LET line == output[i]
            entry == EntryOf(line.url)
        IN /\ line.error # NoAnnotation <=>
                 (entry.tag = "Error" /\ line.marker = NoMarker)
           /\ line.error # NoAnnotation =>
                 /\ entry.err.kind = "Request" =>
                       line.error = [code |-> entry.err.code, shown |-> "code"]
                 /\ entry.err.kind = "Content" =>
                       line.error = [shown |-> "quoted", text |-> entry.err.message]

C22_Witness ==
    /\ tree.st = "ok"
    /\ \E i, j \in DOMAIN output :
          /\ output[i].url = output[j].url
          /\ EntryOf(output[i].url).tag = "Error"
          /\ output[i].marker = NoMarker
          /\ output[i].error # NoAnnotation
          /\ output[j].marker # NoMarker
          /\ output[j].error = NoAnnotation

(***************************************************************************)
(* Helpers for the shape of a rendering: the line a line hangs under (the  *)
(* nearest earlier line one level up), the position of a line among the    *)
(* lines hanging under the same line, and the links of a line's URL.       *)
(***************************************************************************)
ParentLine(lines, i) ==
    CHOOSE p \in 1..(i - 1) :
        /\ LevelOf(lines[p]) = LevelOf(lines[i]) - 1
        /\ \A q \in (p + 1)..(i - 1) : LevelOf(lines[q]) >= LevelOf(lines[i])

ChildIndex(lines, i) ==
    Cardinality({q \in (ParentLine(lines, i) + 1)..i : LevelOf(lines[q]) = LevelOf(lines[i])})

LinksOf(url) ==
    IF EntryOf(url).tag = "Links" THEN EntryOf(url).links ELSE <<>>

IsLastChild(lines, i) ==
    ChildIndex(lines, i) = Len(LinksOf(lines[ParentLine(lines, i)].url))

BranchOf(line) == line.indent[Len(line.indent)]

(***************************************************************************)
(* C23: the line written for a popped item of level 0 has an empty indent; *)
(* for a level above 0 its last token is the tee when the level is at most *)
(* the level of the item then at the front of the deque (-1 for an empty   *)
(* deque) and the corner otherwise.  In every rendering so far a line      *)
(* above level 0 has the corner exactly when it is written for the last    *)
(* link of the line it hangs under, and the tee exactly when it is not.    *)
(***************************************************************************)
C23_BranchAtPop ==
    Popping =>
        LET item == Head(dfs)
            next_level == IF Tail(dfs) = <<>> THEN -1 ELSE Tail(dfs)[1].level
            line == LastLine(output')
        IN /\ LevelOf(line) = item.level
           /\ item.level > 0 =>
                 /\ BranchOf(line) \in {Tee, Corner}
                 /\ BranchOf(line) = Tee <=> item.level <= next_level

C23_BranchBySibling ==
    \A i \in DOMAIN output :
        /\ i = 1 <=> LevelOf(output[i]) = 0
        /\ i > 1 =>
              /\ BranchOf(output[i]) = Corner <=> IsLastChild(output, i)
              /\ BranchOf(output[i]) = Tee <=> ~ IsLastChild(output, i)

C23_Branch == [] C23_BranchBySibling /\ [][C23_BranchAtPop]_vars

C23_Witness ==
    /\ tree.st = "ok"
    /\ \E i \in DOMAIN output :
          /\ i + 2 <= Len(output)
          /\ LevelOf(output[i]) = 1
          /\ BranchOf(output[i]) = Tee
          /\ LevelOf(output[i + 1]) = 2
          /\ BranchOf(output[i + 1]) = Corner
          /\ LevelOf(output[i + 2]) = 1
          /\ BranchOf(output[i + 2]) = Corner

(***************************************************************************)
(* C24: in every rendering so far, for a line of level L and a column x    *)
(* below L, the column is the bar when the line's ancestor of level x (the *)
(* nearest earlier line of that level) is not written for the last link of *)
(* the line it hangs under, and the blank when it is.                      *)
(***************************************************************************)
AncestorAt(lines, i, x) ==
    CHOOSE p \in 1..(i - 1) :
        /\ LevelOf(lines[p]) = x
        /\ \A q \in (p + 1)..i : LevelOf(lines[q]) > x

C24_BarsFollowSiblings ==
    \A i \in DOMAIN output :
        \A x \in 1..(LevelOf(output[i]) - 1) :
            /\ output[i].indent[x] \in {Pipe, Blank}
            /\ output[i].indent[x] = Pipe <=> ~ IsLastChild(output, AncestorAt(output, i, x))

C24_Witness ==
    /\ tree.st = "ok"
    /\ \E i \in DOMAIN output :
          /\ i < Len(output)
          /\ LevelOf(output[i]) >= 3
          /\ output[i].indent[1] = Pipe
          /\ output[i].indent[2] = Blank
          /\ LevelOf(output[i + 1]) = 1

(***************************************************************************)
(* C25: no URL is ever written unmarked on two lines and no marked line    *)
(* has a line hanging under it; in the returned rendering every URL that   *)
(* is written has exactly one unmarked line.                               *)
(***************************************************************************)
UnmarkedLines(lines, url) ==
    {i \in DOMAIN lines : lines[i].url = url /\ lines[i].marker = NoMarker}

C25_ExpandedOnce ==
    /\ \A i \in DOMAIN output :
          /\ Cardinality(UnmarkedLines(output, output[i].url)) <= 1
          /\ output[i].marker \in {NoMarker, CycleMarker, SharedMarker}
          /\ output[i].marker # NoMarker => ~ HasChildBeneath(output, i)
    /\ tree.st = "ok" =>
          \A i \in DOMAIN tree.value :
              Cardinality(UnmarkedLines(tree.value, tree.value[i].url)) = 1

C25_Witness ==
    /\ tree.st = "ok"
    /\ \E i, j, k \in DOMAIN output :
          /\ output[i].url = output[j].url
          /\ output[i].url = output[k].url
          /\ output[i].marker = NoMarker
          /\ HasChildBeneath(output, i)
          /\ output[j].marker = CycleMarker
          /\ output[k].marker = SharedMarker

C27_ErrorUnchanged ==
    (gathered # NotCalled /\ ~ body.ok) =>
        /\ ~ gathered.ok
        /\ gathered.err = body.err
        /\ gathered = RespErr(body.err)

C27_Witness ==
    /\ gathered # NotCalled
    /\ ~ body.ok
    /\ body.err = [kind |-> "Request", code |-> 404]
    /\ gathered = RespErr([kind |-> "Request", code |-> 404])

(***************************************************************************)
(* C28: when main has ended, the exit status is 0 if the command line was  *)
(* parsed, and if it was not the status is not 0 and the last thing        *)
(* printed to stdout is the parse error.                                   *)
(***************************************************************************)
C28_ExitCode ==
    exit_code # NotCalled =>
        /\ args.ok => exit_code.code = 0
        /\ ~ args.ok =>
              /\ exit_code.code # 0
              /\ LastLine(stdout) = [error |-> args.err, printed |-> "error"]

(***************************************************************************)
(* C29: at every moment a URL has at most one live unit of work, counting  *)
(* its items on the heap, its handles on the processors deque and the      *)
(* handle the engine is awaiting.                                          *)
(***************************************************************************)
Queued(u) == {i \in DOMAIN heap : heap[i].url = u}

InFlight(u) ==
    Cardinality({i \in DOMAIN processors : processors[i].url = u})
        + (IF current # NoHandle /\ current.url = u THEN 1 ELSE 0)

C29_OneLiveUnit ==
    \A u \in Urls : Cardinality(Queued(u)) + InFlight(u) <= 1

C29_Witness ==
    \E u, v \in Urls :
        /\ u # v
        /\ failures[u] >= 1
        /\ \E i \in Queued(u) : heap[i].retry >= 1
        /\ InFlight(u) = 0
        /\ failures[v] >= 1
        /\ InFlight(v) = 1
        /\ \E h \in Handles : h # NoHandle /\ h.url = v /\ h.retry >= 1
        /\ \E w \in DOMAIN link_map : HasLinks(w) /\ u \in Range(link_map[w].links)

(***************************************************************************)
(* C30: a step that spawns a worker for an item popped off the heap gives  *)
(* it a wake-up time that is the item's timestamp when the timestamp is    *)
(* still ahead (a sleep of timestamp minus now) and the time of the        *)
(* dispatch when it is not (no sleep); and a step in which a worker calls  *)
(* get_links is taken at or after that worker's wake-up time.              *)
(***************************************************************************)
Dispatching == pc = "refill" /\ spawned' = spawned + 1

NewHandle == CHOOSE h \in Range(processors') : h.nth = spawned'

C30_DispatchStep ==
    Dispatching =>
        \E i \in DOMAIN heap :
            /\ heap' = SubSeq(heap, 1, i - 1) \o SubSeq(heap, i + 1, Len(heap))
            /\ NewHandle.url = heap[i].url
            /\ NewHandle.retry = heap[i].retry
            /\ NewHandle.wake >= heap[i].timestamp
            /\ heap[i].timestamp > now => NewHandle.wake - now = heap[i].timestamp - now
            /\ heap[i].timestamp <= now => NewHandle.wake = now

C30_FetchStep ==
    \A u \in Urls :
        attempts'[u] # attempts[u] =>
            \E h \in Handles :
                /\ h # NoHandle
                /\ h.url = u
                /\ h.out = Running
                /\ h.wake <= now

C30_NoFetchBeforeEligible == [][C30_DispatchStep /\ C30_FetchStep]_vars

C30_Witness ==
    /\ now >= 1
    /\ \E h \in Handles :
          /\ h # NoHandle
          /\ h.out = Running
          /\ h.retry >= 1
          /\ h.wake > now
    /\ \E u \in Urls : attempts[u] >= 2 /\ lastResp[u].ok

(***************************************************************************)
(* C31: every comparison of two items gives what the comparison of their   *)
(* timestamps gives, whatever their url and retry are.                     *)
(***************************************************************************)
C31_OrderByTimestamp ==
    compared # NotCalled =>
        /\ compared.eq <=> lhs.timestamp = rhs.timestamp
        /\ compared.lt <=> lhs.timestamp < rhs.timestamp
        /\ compared.le <=> lhs.timestamp <= rhs.timestamp
        /\ compared.cmp = CmpInt(lhs.timestamp, rhs.timestamp)
        /\ compared.partial_cmp = CmpInt(lhs.timestamp, rhs.timestamp)

(***************************************************************************)
(* C32: for every URL not expanded so far, the count kept for it equals    *)
(* the number of items on the deque that carry it, the root's first item   *)
(* included, and no count is negative.                                     *)
(***************************************************************************)
FramesOf(url) == Cardinality({i \in DOMAIN dfs : dfs[i].url = url})

PushedFramesOf(url) == Cardinality({i \in DOMAIN dfs : dfs[i].url = url /\ dfs[i].level > 0})

PendingCount(url) == IF url \in DOMAIN visited THEN visited[url] ELSE 0

C32_CountIsFrames ==
    /\ \A u \in Urls \ Unmarked : PendingCount(u) = FramesOf(u)
    /\ \A u \in Urls : PendingCount(u) >= 0

\* C32 as amended: for every URL not expanded so far, the count equals the
\* number of items on the deque that were pushed for it as a link of an
\* expanded URL (the root's first item, put on the deque without an
\* increment, is not counted), and no count is negative.
C32_CountIsPushedFrames ==
    /\ \A u \in Urls \ Unmarked : PendingCount(u) = PushedFramesOf(u)
    /\ \A u \in Urls : PendingCount(u) >= 0

C32_Witness ==
    /\ output # <<>>
    /\ \E u \in Urls \ Unmarked :
          /\ PushedFramesOf(u) = 2
          /\ PendingCount(u) = 2
    /\ \E u \in Unmarked : u # Root /\ PendingCount(u) > Processed

(***************************************************************************)
(* C33: at the head of the engine loop the URLs seen are split into the    *)
(* keys of the link map, the URLs of the queued items and the URLs of the  *)
(* workers in flight, no URL being in two of them or twice in one, so the  *)
(* three sizes add up to the size of seen; when the trace has ended the    *)
(* keys of the link map are the URLs seen.                                 *)
(***************************************************************************)
QueuedUrls == {heap[i].url : i \in DOMAIN heap}

InFlightUrls == {processors[i].url : i \in DOMAIN processors}

C33_SeenPartition ==
    /\ pc = "loop" =>
          /\ seen = DOMAIN link_map \cup QueuedUrls \cup InFlightUrls
          /\ DOMAIN link_map \cap QueuedUrls = {}
          /\ DOMAIN link_map \cap InFlightUrls = {}
          /\ QueuedUrls \cap InFlightUrls = {}
          /\ Cardinality(seen) =
                Cardinality(DOMAIN link_map) + Len(heap) + Len(processors)
    /\ pc = "done" => DOMAIN link_map = seen

(***************************************************************************)
(* C34: with a scripted link gatherer the link map the trace ends with is  *)
(* settled by the script and max_retries alone: an entry recorded is the   *)
(* first page among the first max_retries + 1 responses of its URL, or the *)
(* last of these when all are failures, whatever the pool size, the retry  *)
(* delay and the order in which workers run, complete and are awaited.     *)
(***************************************************************************)
FirstOk(responses, n) ==
    {i \in 1..n : responses[i].ok /\ \A j \in 1..(i - 1) : ~ responses[j].ok}

ScriptedValue(u) ==
    LET n == max_retries + 1
    IN IF FirstOk(script[u], n) = {}
       THEN Error(script[u][n].err)
       ELSE LET i == CHOOSE j \in FirstOk(script[u], n) : TRUE
            IN Links(FilteredLinks(script[u][i].links, Root))

RECURSIVE ScriptedReach(_)
ScriptedReach(S) ==
    LET T == S \cup UNION {Range(ScriptedValue(u).links) :
                               u \in {v \in S : ScriptedValue(v).tag = "Links"}}
    IN IF T = S THEN S ELSE ScriptedReach(T)

C34_MapFromScript ==
    LET reach == ScriptedReach({Root})
    IN /\ DOMAIN link_map \subseteq reach
       /\ \A u \in DOMAIN link_map : link_map[u] = ScriptedValue(u)
       /\ pc = "done" => DOMAIN link_map = reach

C34_Witness ==
    /\ pc = "done"
    /\ worker_pool_size > 1
    /\ DOMAIN link_map = Urls
    /\ \E u \in Urls : link_map[u].tag = "Error" /\ attempts[u] > 1
    /\ \E u \in Urls \ {Root} : link_map[u].tag = "Links" /\ attempts[u] > 1

(***************************************************************************)
(* C35: when every fetch returns, the trace comes to its end, whatever     *)
(* max_retries is: the loop is left with no item queued and no worker in   *)
(* flight.                                                                 *)
(***************************************************************************)
C35_Terminates == <>(pc = "done" /\ heap = <<>> /\ processors = <<>>)

(***************************************************************************)
(* C36: the retry arithmetic stays within its widths: no worker is handed  *)
(* a retry whose successor does not fit 8 bits, no item is made for a      *)
(* retry whose power of two does not fit 64 bits, the engine does not      *)
(* panic, and a URL that fails for good ends as an Error recorded after    *)
(* max_retries + 1 attempts.                                               *)
(***************************************************************************)
C36_WithinWidths ==
    /\ \A h \in Handles : h.url # <<>> => h.retry + 1 <= U8Max
    /\ \A i \in DOMAIN heap : heap[i].retry < U64Bits
    /\ pc # "panicked"
    /\ pc = "done" =>
          \A u \in seen :
              failures[u] = attempts[u] =>
                  /\ HasError(u)
                  /\ attempts[u] = max_retries + 1

(***************************************************************************)
(* C37: an entry of the link map, once made, is neither changed nor        *)
(* removed, and a step that records a result records it for a URL that had *)
(* no entry: the keys only grow and each URL is recorded at most once.     *)
(***************************************************************************)
Recording(u) ==
    /\ pc = "await"
    /\ pc' = "refill"
    /\ current.out.st = "ok"
    /\ current.out.url = u
    /\ \/ current.out.value.tag = "Links"
       \/ RetriesExhausted(current.out.retry, max_retries)

C37_EntryKept ==
    /\ \A u \in DOMAIN link_map :
          u \in DOMAIN link_map' /\ link_map'[u] = link_map[u]
    /\ \A u \in Urls :
          Recording(u) =>
              /\ u \notin DOMAIN link_map
              /\ DOMAIN link_map' = DOMAIN link_map \cup {u}
              /\ link_map'[u] = current.out.value

C37_WriteOnce == [][C37_EntryKept]_vars

C37_Witness ==
    /\ pc = "done"
    /\ DOMAIN link_map = Urls
    /\ \E u \in Urls \ {Root} :
          /\ HasLinks(u)
          /\ Root \in Range(link_map[u].links)
          /\ u \in Range(link_map[u].links)
    /\ \E u \in Urls : HasError(u) /\ attempts[u] > 1

(***************************************************************************)
(* C38: to_tree returns on every map, and the lines it has written and the *)
(* items it still holds on the deque are, at every moment, one for the     *)
(* root and one for each link of each URL expanded so far, no URL being    *)
(* expanded twice; so the rendering returned has 1 line plus one line for  *)
(* each link of each expanded URL.                                         *)
(***************************************************************************)
RECURSIVE SumOver(_, _)
SumOver(S, f) ==
    IF S = {} THEN 0
    ELSE LET u == CHOOSE v \in S : TRUE
         IN f[u] + SumOver(S \ {u}, f)

LinkCount == [u \in Urls |-> IF u \in DOMAIN tree_map /\ tree_map[u].tag = "Links"
                              THEN Len(tree_map[u].links)
                              ELSE 0]

C38_LinesCounted ==
    /\ \A u \in Urls : Cardinality(UnmarkedLines(output, u)) <= 1
    /\ Len(output) + Len(dfs) = 1 + SumOver(Unmarked, LinkCount)
    /\ tree.st = "ok" => Len(tree.value) = 1 + SumOver(Unmarked, LinkCount)

C38_Terminates == [] C38_LinesCounted /\ <>(tree.st = "ok")

C38_Witness ==
    /\ tree.st = "ok"
    /\ Len(tree.value) = 1 + 2 * MaxLinks
    /\ \E i, j \in DOMAIN output :
          /\ i < j
          /\ output[i].url = output[j].url
          /\ output[i].marker = SharedMarker
          /\ output[j].marker = NoMarker
    /\ \E i \in DOMAIN output : output[i].marker = CycleMarker

====
